---- MODULE Spec2Model ----
(***************************************************************************)
(* Ekubo market watcher: the time-windowed pool discovery of src/agent.ts. *)
(*                                                                         *)
(* getLatestPools is an async function; several invocations may be in      *)
(* flight on the one JavaScript event loop.  Each action below is one      *)
(* synchronous segment of the code, from the resolution of one awaited RPC *)
(* to the next await that really leaves the event-loop turn (an await of   *)
(* an already settled promise only drains microtasks, so no other call can *)
(* run in between).  The four module-level Maps are the shared state.      *)
(***************************************************************************)
EXTENDS Integers, Sequences, FiniteSets, TLC

(***************************************************************************)
(* Bounds of the model.                                                    *)
(***************************************************************************)
MaxCalls == 2
MaxHead == 4
MaxChunk == 2
MaxTicks == 2
MaxFailures == 1

(***************************************************************************)
(* Program constants.                                                      *)
(***************************************************************************)
MaxLookbackMinutes == 1440
TtlMs == 60000
MinEventFields == 7
AddressHexDigits == 64
\* config.cache.maxCacheSize, as set by MAX_POOL_CACHE_SIZE (the default is 1000).
MaxCacheSize == 1

Calls == 1..MaxCalls
Networks == {"mainnet", "testnet"}

\* The window sizes a caller may pass: below, inside and above the range.
MinutesInputs == {0, 1, MaxLookbackMinutes, MaxLookbackMinutes + 1}

Max(a, b) == IF a >= b THEN a ELSE b

(***************************************************************************)
(* Strings the code slices, pads or lower-cases are sequences of           *)
(* one-character strings, so that the operations are computed.             *)
(***************************************************************************)
ToLowerCase(s) ==
    [i \in 1..Len(s) |->
        CASE s[i] = "A" -> "a" [] s[i] = "B" -> "b" [] s[i] = "C" -> "c"
          [] s[i] = "D" -> "d" [] s[i] = "E" -> "e" [] s[i] = "F" -> "f"
          [] s[i] = "X" -> "x" [] OTHER -> s[i]]

StartsWith0x(s) == Len(s) >= 2 /\ s[1] = "0" /\ s[2] = "x"

PadStart(s, n) == IF Len(s) >= n THEN s ELSE [i \in 1..(n - Len(s)) |-> "0"] \o s

\* String.prototype.slice(0, n)
SliceHead(s, n) == SubSeq(s, 1, IF n < Len(s) THEN n ELSE Len(s))

\* String.prototype.slice(-n)
SliceTail(s, n) == SubSeq(s, Max(1, Len(s) - n + 1), Len(s))

\* agent.ts 95-109: lower-case, ensure the 0x prefix, left-pad the hex body.
NormalizeAddress(tokenAddress) ==
    LET lower == ToLowerCase(tokenAddress)
        prefixed == IF StartsWith0x(lower) THEN lower ELSE <<"0", "x">> \o lower
        hexPart == SubSeq(prefixed, 3, Len(prefixed))
    IN  IF Len(hexPart) < AddressHexDigits
        THEN <<"0", "x">> \o PadStart(hexPart, AddressHexDigits)
        ELSE prefixed

\* agent.ts 218: the placeholder of a token whose contract cannot be read.
FallbackSymbol(tokenAddress) ==
    SliceHead(tokenAddress, 6) \o <<".", ".", ".">> \o SliceTail(tokenAddress, 4)

(***************************************************************************)
(* The chain the RPC provider answers from.  Token addresses as the events *)
(* carry them: ETH with its leading zero dropped, USDC in upper case and   *)
(* without prefix, TKA unknown to the static table.                        *)
(***************************************************************************)
AddrETH == <<"0", "x", "4", "9", "d", "3", "6", "5", "7">>
AddrUSDC == <<"5", "3", "C", "9", "1", "2", "5", "3">>
AddrTKA == <<"0", "x", "7", "a", "1", "1", "b", "e", "e", "f">>

SymETH == <<"E", "T", "H">>
SymUSDC == <<"U", "S", "D", "C">>
SymTKA == <<"T", "K", "A">>
NoSymbol == <<>>

\* getStarknetTokenSymbol of ./starknet-token-addresses: the static table,
\* keyed by the normalized address; NoSymbol stands for undefined.
StaticTokenSymbol(normalizedAddress) ==
    CASE normalizedAddress = NormalizeAddress(AddrETH) -> SymETH
      [] normalizedAddress = NormalizeAddress(AddrUSDC) -> SymUSDC
      [] OTHER -> NoSymbol

\* What the token contract's symbol() decodes to (agent.ts 137-205).
ContractSymbol(tokenAddress) ==
    CASE tokenAddress = AddrTKA -> SymTKA
      [] tokenAddress = AddrETH -> SymETH
      [] tokenAddress = AddrUSDC -> SymUSDC
      [] OTHER -> <<"U", "N", "K", "N", "O", "W", "N">>

EventData(t0, t1, n) ==
    SubSeq(<<t0, t1, "3000", "60", "0x0", "-276378", "18446744073709551615">>, 1, n)

\* The PoolInitialized logs of each network, in block order.
EventLog(network) ==
    IF network = "mainnet"
    THEN << [block_number |-> 0, transaction_hash |-> "m0", data |-> EventData(AddrETH, AddrUSDC, 7)],
            [block_number |-> 2, transaction_hash |-> "m2", data |-> EventData(AddrETH, AddrTKA, 7)],
            [block_number |-> 4, transaction_hash |-> "m4x", data |-> EventData(AddrETH, AddrTKA, 5)],
            [block_number |-> 4, transaction_hash |-> "m4", data |-> EventData(AddrUSDC, AddrETH, 7)] >>
    ELSE << [block_number |-> 1, transaction_hash |-> "t1", data |-> EventData(AddrTKA, AddrETH, 7)] >>

\* Block timestamps (Unix seconds), increasing in the block number; the two
\* networks are different chains.
BlockTimestamp(network, blockNumber) ==
    IF network = "mainnet" THEN 100000 + 30 * blockNumber ELSE 100085 + 30 * blockNumber

\* The wall clock (Date.now(), milliseconds) when the model starts.
StartMs == 100120000 + 500


(***************************************************************************)
(* State.  The four Maps of agent.ts 70-75, the environment (clock, chain  *)
(* head, configured chunk size, RPC failures so far), and one record of    *)
(* locals per invocation of getLatestPools.                                *)
(***************************************************************************)
VARIABLES poolCache, lastCacheUpdate, blockTimestampCache, tokenSymbolCache,
          now, head, chunkSize, failures, call

vars == <<poolCache, lastCacheUpdate, blockTimestampCache, tokenSymbolCache,
          now, head, chunkSize, failures, call>>

EmptyMap == [k \in {} |-> 0]
MapHas(m, k) == k \in DOMAIN m
MapSet(m, k, v) == [x \in DOMAIN m \cup {k} |-> IF x = k THEN v ELSE m[x]]

\* The head block of each chain; the testnet chain does not grow here.
HeadOf(network) == IF network = "mainnet" THEN head ELSE 1

(***************************************************************************)
(* getLatestPools: the pure pieces.                                        *)
(***************************************************************************)
\* A faulty variant of WindowRejected: the lower limit is off by one.
WindowRejected_OffByOne(minutes) == minutes < 0 \/ minutes > MaxLookbackMinutes

\* agent.ts 346: the guard that rejects the window.
WindowRejected(minutes) == minutes < 1 \/ minutes > MaxLookbackMinutes

\* agent.ts 352: Math.floor(Date.now() / 1000) - minutes * 60
CutoffTimeInSeconds(nowMs, minutes) == (nowMs \div 1000) - (minutes * 60)

\* agent.ts 356: `${network}-${minutes}`
CacheKey(network, minutes) == <<network, minutes>>

\* agent.ts 357: lastCacheUpdate.get(cacheKey) || 0
LastUpdate(updates, cacheKey) == IF MapHas(updates, cacheKey) THEN updates[cacheKey] ELSE 0

\* agent.ts 360: the condition under which the cached pools are served.
CacheServes(cache, lastUpdate, nowMs) == Len(cache) > 0 /\ (nowMs - lastUpdate) < TtlMs

\* A faulty variant of FilterByCutoff: the pools are returned as found.
FilterByCutoff_Unfiltered(pools, cutoff) == pools

\* agent.ts 365 and 417: pools.filter(pool => pool.timestamp >= cutoff)
FilterByCutoff(pools, cutoff) ==
    LET InWindow(pool) == pool.timestamp >= cutoff
    IN  SelectSeq(pools, InWindow)

\* agent.ts 370-371: the first window.
FirstWindow(currentBlock, chunk) ==
    [fromBlock |-> Max(0, currentBlock - chunk), toBlock |-> currentBlock]

\* agent.ts 404-405: the next older window.
NextWindow(fromBlock, chunk) ==
    [fromBlock |-> Max(0, fromBlock - chunk), toBlock |-> fromBlock - 1]

\* agent.ts 408: the loop's own exit test.
ReachedGenesis(fromBlock, toBlock) == fromBlock = 0 /\ toBlock = 0

\* A faulty variant of WindowTooOld: a block exactly at the cutoff counts as too old.
WindowTooOld_Inclusive(toBlockTimestamp, cutoff) == toBlockTimestamp <= cutoff

\* agent.ts 381: the window's youngest block is older than the cutoff.
WindowTooOld(toBlockTimestamp, cutoff) == toBlockTimestamp < cutoff

\* A faulty variant of PoolCacheSet: every pool is stored under one and the same key.
PoolCacheSet_SingleKey(cache, pool) == <<pool>>

\* Map.set on poolCache, a Map keyed by transaction hash that keeps insertion order.
PoolCacheSet(cache, pool) ==
    IF \E i \in 1..Len(cache) : cache[i].transaction_hash = pool.transaction_hash
    THEN [i \in 1..Len(cache) |->
            IF cache[i].transaction_hash = pool.transaction_hash THEN pool ELSE cache[i]]
    ELSE Append(cache, pool)

RECURSIVE PoolCacheSetAll(_, _)
PoolCacheSetAll(cache, pools) ==
    IF pools = <<>> THEN cache
    ELSE PoolCacheSetAll(PoolCacheSet(cache, Head(pools)), Tail(pools))

\* A faulty variant of RebuiltPoolCache: the cache as a reader would find it
\* after the clear and the first insertion.
RebuiltPoolCache_Partial(allPools) ==
    IF allPools = <<>> THEN <<>> ELSE PoolCacheSet(<<>>, Head(allPools))

\* A faulty variant of RebuiltPoolCache: the pools found are merged into
\* the records already cached.
RebuiltPoolCache_Merged(allPools) == PoolCacheSetAll(poolCache, allPools)

\* agent.ts 442-447: poolCache.clear(), then one set per pool found.
RebuiltPoolCache(allPools) == PoolCacheSetAll(<<>>, allPools)

\* A faulty variant of RebuiltLastCacheUpdate: the times of the other keys
\* are kept.
RebuiltLastCacheUpdate_Kept(cacheKey, nowMs) == MapSet(lastCacheUpdate, cacheKey, nowMs)

\* agent.ts 443 and 448: lastCacheUpdate.clear(), then set(cacheKey, now).
RebuiltLastCacheUpdate(cacheKey, nowMs) == MapSet(EmptyMap, cacheKey, nowMs)

(***************************************************************************)
(* The RPC provider.                                                       *)
(***************************************************************************)
BlockExists(network, blockNumber) == blockNumber >= 0 /\ blockNumber <= HeadOf(network)

\* provider.getEvents for blocks fromBlock..toBlock.
GetEvents(network, fromBlock, toBlock) ==
    LET InRange(e) == /\ e.block_number >= fromBlock
                      /\ e.block_number <= toBlock
                      /\ e.block_number <= HeadOf(network)
    IN  SelectSeq(EventLog(network), InRange)

\* agent.ts 245: [...new Set(events.map(e => e.block_number))]
RECURSIVE UniqueBlockNumbers(_)
UniqueBlockNumbers(events) ==
    IF events = <<>> THEN <<>>
    ELSE LET n == Len(events)
             before == UniqueBlockNumbers(SubSeq(events, 1, n - 1))
             b == events[n].block_number
         IN  IF \E i \in 1..Len(before) : before[i] = b THEN before ELSE Append(before, b)


(***************************************************************************)
(* The locals of one invocation of getLatestPools (and of the              *)
(* fetchPoolInitializedEvents / extractPoolEventData / getTokenSymbol it   *)
(* is in), with what an observer of the invocation records about it:       *)
(*   startNow  the clock when the call was made                            *)
(*   path      "hit" (served from poolCache) or "scan"                     *)
(*   rpcs      the kinds of RPC requests the call has issued               *)
(*   windows   the [fromBlock, toBlock] windows whose events it requested  *)
(*   examined  the boundary blocks whose timestamp it requested            *)
(*   rpcFailed whether an RPC request of the call has failed               *)
(***************************************************************************)
NoLookup == [addr |-> <<>>, st |-> "none", val |-> NoSymbol]

IdleCall ==
    [pc |-> "idle", minutes |-> 0, network |-> "mainnet", currentBlock |-> 0,
     cutoffTimeInSeconds |-> 0, now |-> 0, fromBlock |-> 0, toBlock |-> 0,
     allPools |-> <<>>, events |-> <<>>, blockTimestamps |-> EmptyMap,
     uncachedBlockNumbers |-> <<>>, idx |-> 0, pools |-> <<>>,
     sym |-> <<NoLookup, NoLookup>>, result |-> <<>>, error |-> "none",
     startNow |-> 0, path |-> "none", rpcs |-> {}, windows |-> {}, examined |-> {},
     rpcFailed |-> FALSE]

\* What one synchronous segment leaves behind: the call's locals and the two
\* caches the scan writes while it runs.
Segment(cl, tsc, ssc) == [cl |-> cl, tsc |-> tsc, ssc |-> ssc]

\* A faulty variant of GetTokenSymbolSync: the static table is not consulted.
GetTokenSymbolSync_NoTable(ssc, tokenAddress) ==
    IF MapHas(ssc, tokenAddress)
    THEN [ssc |-> ssc, lookup |-> [addr |-> tokenAddress, st |-> "done", val |-> ssc[tokenAddress]]]
    ELSE [ssc |-> ssc, lookup |-> [addr |-> tokenAddress, st |-> "rpc", val |-> NoSymbol]]

(***************************************************************************)
(* getTokenSymbol, up to its first await (agent.ts 87-129).                *)
(***************************************************************************)
GetTokenSymbolSync(ssc, tokenAddress) ==
    IF MapHas(ssc, tokenAddress)
    THEN [ssc |-> ssc, lookup |-> [addr |-> tokenAddress, st |-> "done", val |-> ssc[tokenAddress]]]
    ELSE LET mappedSymbol == StaticTokenSymbol(NormalizeAddress(tokenAddress))
         IN  IF mappedSymbol # NoSymbol
             THEN [ssc |-> MapSet(ssc, tokenAddress, mappedSymbol),
                   lookup |-> [addr |-> tokenAddress, st |-> "done", val |-> mappedSymbol]]
             ELSE [ssc |-> ssc,
                   lookup |-> [addr |-> tokenAddress, st |-> "rpc", val |-> NoSymbol]]

\* A faulty variant of SymbolFromContract: the failure of the contract read
\* is not noticed.
SymbolFromContract_FailureIgnored(tokenAddress, ok) == ContractSymbol(tokenAddress)

\* agent.ts 125-221: the end of the dynamic path, with the contract read or not.
SymbolFromContract(tokenAddress, ok) ==
    IF ok THEN ContractSymbol(tokenAddress) ELSE FallbackSymbol(tokenAddress)

\* A faulty variant of InsufficientData: the length of the data is not looked at.
InsufficientData_Unchecked(data) == FALSE

\* agent.ts 304: the event carries too few fields.
InsufficientData(data) == Len(data) < MinEventFields

\* agent.ts 321-337: the record of one event.
PoolRecord(event, blockTimestamps, token0Symbol, token1Symbol) ==
    [pool_key |-> [token0 |-> event.data[1], token1 |-> event.data[2]],
     block_number |-> event.block_number,
     transaction_hash |-> event.transaction_hash,
     timestamp |-> IF MapHas(blockTimestamps, event.block_number)
                   THEN blockTimestamps[event.block_number] ELSE 0,
     token0_symbol |-> token0Symbol,
     token1_symbol |-> token1Symbol]

(***************************************************************************)
(* The scan loop of getLatestPools (agent.ts 377-414).                     *)
(***************************************************************************)
\* The top of the loop: request the timestamp of toBlock (agent.ts 380).
LoopTop(cl) ==
    [cl EXCEPT !.pc = "getBlock_to",
               !.examined = @ \cup {cl.toBlock},
               !.rpcs = @ \cup {"getBlock"}]

\* agent.ts 394, 236: enter fetchPoolInitializedEvents, request the events.
RequestEvents(cl) ==
    [cl EXCEPT !.pc = "getEvents",
               !.windows = @ \cup {<<cl.fromBlock, cl.toBlock>>},
               !.rpcs = @ \cup {"getEvents"}]

\* agent.ts 401-413: take the chunk's pools, move to the next window.
AfterChunk(cl, chunkPools) ==
    LET w == NextWindow(cl.fromBlock, chunkSize)
        moved == [cl EXCEPT !.allPools = @ \o chunkPools,
                            !.fromBlock = w.fromBlock, !.toBlock = w.toBlock,
                            !.events = <<>>, !.blockTimestamps = EmptyMap,
                            !.uncachedBlockNumbers = <<>>, !.idx = 0, !.pools = <<>>,
                            !.sym = <<NoLookup, NoLookup>>]
    IN  IF ReachedGenesis(w.fromBlock, w.toBlock)
        THEN [moved EXCEPT !.pc = "exit"]
        ELSE LoopTop(moved)

\* agent.ts 282-293 with 301-337: extract the events from index cl.idx on,
\* until a token symbol has to be read from its contract or the list ends.
RECURSIVE ExtractFrom(_, _, _)
ExtractFrom(cl, tsc, ssc) ==
    IF cl.idx > Len(cl.events)
    THEN Segment(AfterChunk(cl, cl.pools), tsc, ssc)
    ELSE LET event == cl.events[cl.idx]
         IN  IF InsufficientData(event.data)
             THEN ExtractFrom([cl EXCEPT !.idx = @ + 1], tsc, ssc)
             ELSE LET r0 == GetTokenSymbolSync(ssc, event.data[1])
                      r1 == GetTokenSymbolSync(r0.ssc, event.data[2])
                  IN  IF r0.lookup.st = "done" /\ r1.lookup.st = "done"
                      THEN ExtractFrom(
                             [cl EXCEPT !.idx = @ + 1,
                                        !.pools = Append(@, PoolRecord(event, cl.blockTimestamps,
                                                                       r0.lookup.val, r1.lookup.val))],
                             tsc, r1.ssc)
                      ELSE Segment(
                             [cl EXCEPT !.pc = "symbols",
                                        !.sym = <<r0.lookup, r1.lookup>>,
                                        !.rpcs = @ \cup {"getClassAt"}],
                             tsc, r1.ssc)

\* agent.ts 244-280: split the events' blocks into cached and uncached.
AfterEvents(cl, events, tsc, ssc) ==
    LET blocks == UniqueBlockNumbers(events)
        IsCached(b) == MapHas(tsc, b)
        IsUncached(b) == ~MapHas(tsc, b)
        cached == SelectSeq(blocks, IsCached)
        uncached == SelectSeq(blocks, IsUncached)
        started == [cl EXCEPT !.events = events,
                              !.blockTimestamps =
                                  [b \in {cached[i] : i \in 1..Len(cached)} |-> tsc[b]],
                              !.uncachedBlockNumbers = uncached,
                              !.idx = 1, !.pools = <<>>]
    IN  IF uncached # <<>>
        THEN Segment([started EXCEPT !.pc = "getBlock_ev", !.rpcs = @ \cup {"getBlock"}], tsc, ssc)
        ELSE ExtractFrom(started, tsc, ssc)

\* agent.ts 417-454: filter, rebuild the cache, return.
Returned(cl) ==
    [cl EXCEPT !.pc = "done",
               !.result = FilterByCutoff(cl.allPools, cl.cutoffTimeInSeconds)]

\* The state after a segment: when the loop was left, lines 417-454 run in
\* the same turn.
Commit(c, seg) ==
    /\ blockTimestampCache' = seg.tsc
    /\ tokenSymbolCache' = seg.ssc
    /\ IF seg.cl.pc = "exit"
       THEN /\ call' = [call EXCEPT ![c] = Returned(seg.cl)]
            /\ poolCache' = RebuiltPoolCache(seg.cl.allPools)
            /\ lastCacheUpdate' =
                   RebuiltLastCacheUpdate(CacheKey(seg.cl.network, seg.cl.minutes), seg.cl.now)
       ELSE /\ call' = [call EXCEPT ![c] = seg.cl]
            /\ UNCHANGED <<poolCache, lastCacheUpdate>>

\* An RPC request may fail; the failures of one run are bounded.
Outcome(ok) ==
    /\ ok \in BOOLEAN
    /\ ~ok => failures < MaxFailures
    /\ failures' = IF ok THEN failures ELSE failures + 1

Failed(cl, ok) == IF ok THEN cl ELSE [cl EXCEPT !.rpcFailed = TRUE]


(***************************************************************************)
(* Actions.                                                                *)
(***************************************************************************)
Init ==
    /\ poolCache = <<>>
    /\ lastCacheUpdate = EmptyMap
    /\ blockTimestampCache = EmptyMap
    /\ tokenSymbolCache = EmptyMap
    /\ now = StartMs
    /\ head \in 0..MaxHead
    /\ chunkSize \in 1..MaxChunk
    /\ failures = 0
    /\ call = [c \in Calls |-> IdleCall]

\* getLatestPools(minutes, network) is called: agent.ts 345-351.
Invoke(c, minutes, network) ==
    /\ call[c].pc = "idle"
    /\ c > 1 => call[c - 1].pc # "idle"
    /\ call' = [call EXCEPT ![c] =
                  IF WindowRejected(minutes)
                  THEN [@ EXCEPT !.pc = "failed", !.error = "InvalidWindow",
                                 !.minutes = minutes, !.network = network, !.startNow = now]
                  ELSE [@ EXCEPT !.pc = "getBlockNumber", !.rpcs = {"getBlockNumber"},
                                 !.minutes = minutes, !.network = network, !.startNow = now]]
    /\ UNCHANGED <<poolCache, lastCacheUpdate, blockTimestampCache, tokenSymbolCache,
                   now, head, chunkSize, failures>>

InFlight(c) == call[c].pc \notin {"idle", "done", "failed"}

\* A request arrives while no other is being served.
Start(c, minutes, network) ==
    /\ \A d \in Calls : ~InFlight(d)
    /\ Invoke(c, minutes, network)

\* A request arrives while another is awaiting an RPC.
StartConcurrent(c, minutes, network) ==
    /\ \E d \in Calls : InFlight(d)
    /\ Invoke(c, minutes, network)

\* agent.ts 352-375: the head block number is known; serve the cache or
\* start the scan.
AfterBlockNumber(cl, currentBlock, nowMs) ==
    LET cutoff == CutoffTimeInSeconds(nowMs, cl.minutes)
        lastUpdate == LastUpdate(lastCacheUpdate, CacheKey(cl.network, cl.minutes))
        w == FirstWindow(currentBlock, chunkSize)
        read == [cl EXCEPT !.currentBlock = currentBlock,
                           !.cutoffTimeInSeconds = cutoff, !.now = nowMs]
    IN  IF CacheServes(poolCache, lastUpdate, nowMs)
        THEN [read EXCEPT !.pc = "done", !.path = "hit",
                          !.result = FilterByCutoff(poolCache, cutoff)]
        ELSE LoopTop([read EXCEPT !.path = "scan", !.allPools = <<>>,
                                  !.fromBlock = w.fromBlock, !.toBlock = w.toBlock])

\* A faulty variant of HeadFetchFailed: the rejection is swallowed and the
\* call goes on from block 0.
HeadFetchFailed_Swallowed(cl) == AfterBlockNumber([cl EXCEPT !.rpcFailed = TRUE], 0, now)

\* agent.ts 351: the rejection of getBlockNumber() is not caught; it leaves
\* getLatestPools.
HeadFetchFailed(cl) ==
    [cl EXCEPT !.pc = "failed", !.error = "UpstreamUnavailable", !.rpcFailed = TRUE]

\* provider.getBlockNumber() settles: agent.ts 351.
GetBlockNumberReply(c, ok) ==
    /\ call[c].pc = "getBlockNumber"
    /\ Outcome(ok)
    /\ call' = [call EXCEPT ![c] =
                  IF ok
                  THEN AfterBlockNumber(@, HeadOf(@.network), now)
                  ELSE HeadFetchFailed(@)]
    /\ UNCHANGED <<poolCache, lastCacheUpdate, blockTimestampCache, tokenSymbolCache,
                   now, head, chunkSize>>

\* A faulty variant of BoundaryBlockReply: a boundary block whose timestamp
\* cannot be fetched ends the scan.
BoundaryBlockReply_StopsOnFailure(c, ok) ==
    LET cl == call[c]
    IN  /\ cl.pc = "getBlock_to"
        /\ IF BlockExists(cl.network, cl.toBlock)
           THEN Outcome(ok)
           ELSE ok = FALSE /\ UNCHANGED failures
        /\ Commit(c, Segment(
              IF ~ok \/ WindowTooOld(BlockTimestamp(cl.network, cl.toBlock), cl.cutoffTimeInSeconds)
              THEN [Failed(cl, ok) EXCEPT !.pc = "exit"]
              ELSE RequestEvents(cl),
              blockTimestampCache, tokenSymbolCache))
        /\ UNCHANGED <<now, head, chunkSize>>

\* provider.getBlock(toBlock) settles: agent.ts 379-394.  A block that is
\* not on the chain cannot be fetched.
BoundaryBlockReply(c, ok) ==
    LET cl == call[c]
    IN  /\ cl.pc = "getBlock_to"
        /\ IF BlockExists(cl.network, cl.toBlock)
           THEN Outcome(ok)
           ELSE ok = FALSE /\ UNCHANGED failures
        /\ Commit(c, Segment(
              IF ok /\ WindowTooOld(BlockTimestamp(cl.network, cl.toBlock), cl.cutoffTimeInSeconds)
              THEN [cl EXCEPT !.pc = "exit"]
              ELSE RequestEvents(Failed(cl, ok)),
              blockTimestampCache, tokenSymbolCache))
        /\ UNCHANGED <<now, head, chunkSize>>

\* A faulty variant of GetEventsReply: a failed event-log fetch ends the call.
GetEventsReply_Aborts(c, ok) ==
    LET cl == call[c]
    IN  /\ cl.pc = "getEvents"
        /\ Outcome(ok)
        /\ Commit(c, IF ok
                     THEN AfterEvents(cl, GetEvents(cl.network, cl.fromBlock, cl.toBlock),
                                      blockTimestampCache, tokenSymbolCache)
                     ELSE Segment([Failed(cl, ok) EXCEPT !.pc = "failed",
                                                         !.error = "UpstreamUnavailable"],
                                  blockTimestampCache, tokenSymbolCache))
        /\ UNCHANGED <<now, head, chunkSize>>

\* provider.getEvents(...) settles: agent.ts 236-258 or 294-297.
GetEventsReply(c, ok) ==
    LET cl == call[c]
    IN  /\ cl.pc = "getEvents"
        /\ Outcome(ok)
        /\ Commit(c, IF ok
                     THEN AfterEvents(cl, GetEvents(cl.network, cl.fromBlock, cl.toBlock),
                                      blockTimestampCache, tokenSymbolCache)
                     ELSE Segment(AfterChunk(Failed(cl, ok), <<>>),
                                  blockTimestampCache, tokenSymbolCache))
        /\ UNCHANGED <<now, head, chunkSize>>

\* provider.getBlock(blockNumber) of an event's block settles: agent.ts 266-279.
EventBlockReply(c, ok) ==
    LET cl == call[c]
        blockNumber == Head(cl.uncachedBlockNumbers)
        timestamp == BlockTimestamp(cl.network, blockNumber)
        stored == ok /\ timestamp # 0
        next == [Failed(cl, ok) EXCEPT
                    !.blockTimestamps = IF stored THEN MapSet(@, blockNumber, timestamp) ELSE @,
                    !.uncachedBlockNumbers = Tail(@)]
        tsc == IF stored THEN MapSet(blockTimestampCache, blockNumber, timestamp)
               ELSE blockTimestampCache
    IN  /\ cl.pc = "getBlock_ev"
        /\ Outcome(ok)
        /\ Commit(c, IF next.uncachedBlockNumbers # <<>>
                     THEN Segment(next, tsc, tokenSymbolCache)
                     ELSE ExtractFrom(next, tsc, tokenSymbolCache))
        /\ UNCHANGED <<now, head, chunkSize>>

\* The contract read of token i of the current event settles (getClassAt,
\* then symbol(): agent.ts 129-221); with both symbols known the record is
\* built and the extraction goes on.
SymbolReply(c, i, ok) ==
    LET cl == call[c]
        tokenAddress == cl.sym[i].addr
        symbol == SymbolFromContract(tokenAddress, ok)
        sym == [cl.sym EXCEPT ![i] = [addr |-> tokenAddress, st |-> "done", val |-> symbol]]
        ssc == MapSet(tokenSymbolCache, tokenAddress, symbol)
        next == [Failed(cl, ok) EXCEPT !.sym = sym]
    IN  /\ cl.pc = "symbols"
        /\ cl.sym[i].st = "rpc"
        /\ Outcome(ok)
        /\ Commit(c, IF sym[1].st = "done" /\ sym[2].st = "done"
                     THEN ExtractFrom(
                            [next EXCEPT !.idx = @ + 1,
                                         !.sym = <<NoLookup, NoLookup>>,
                                         !.pools = Append(@, PoolRecord(cl.events[cl.idx],
                                                     cl.blockTimestamps, sym[1].val, sym[2].val))],
                            blockTimestampCache, ssc)
                     ELSE Segment(next, blockTimestampCache, ssc))
        /\ UNCHANGED <<now, head, chunkSize>>

\* Time passes.
Tick ==
    /\ now < StartMs + MaxTicks * 30000
    /\ now' = now + 30000
    /\ UNCHANGED <<poolCache, lastCacheUpdate, blockTimestampCache, tokenSymbolCache,
                   head, chunkSize, failures, call>>

\* The mainnet chain grows by a block.
NewBlock ==
    /\ head < MaxHead
    /\ BlockTimestamp("mainnet", head + 1) * 1000 <= now
    /\ head' = head + 1
    /\ UNCHANGED <<poolCache, lastCacheUpdate, blockTimestampCache, tokenSymbolCache,
                   now, chunkSize, failures, call>>

Next ==
    \/ \E c \in Calls, minutes \in MinutesInputs, network \in Networks : Start(c, minutes, network)
    \/ \E c \in Calls, ok \in BOOLEAN : GetBlockNumberReply(c, ok)
    \/ \E c \in Calls, ok \in BOOLEAN : BoundaryBlockReply(c, ok)
    \/ \E c \in Calls, ok \in BOOLEAN : GetEventsReply(c, ok)
    \/ \E c \in Calls, ok \in BOOLEAN : EventBlockReply(c, ok)
    \/ \E c \in Calls, i \in 1..2, ok \in BOOLEAN : SymbolReply(c, i, ok)
    \/ Tick
    \/ NewBlock

\* Requests served one after the other.
Spec == Init /\ [][Next]_vars

\* Requests that overlap, on a chain near its head.
InitConcurrent == Init /\ head >= MaxHead - 1 /\ chunkSize = MaxChunk

NextConcurrent ==
    \/ Next
    \/ \E c \in Calls, minutes \in MinutesInputs, network \in Networks :
          StartConcurrent(c, minutes, network)

SpecConcurrent == InitConcurrent /\ [][NextConcurrent]_vars


(***************************************************************************)
(* Properties.                                                             *)
(***************************************************************************)
Records(pools) == {pools[i] : i \in 1..Len(pools)}

KeyOf(c) == <<call[c].network, call[c].minutes>>

WellFormed(event) == Len(event.data) >= 7

EventsOf(network) == Records(EventLog(network))

Accumulated(c, event) ==
    \E j \in 1..Len(call[c].allPools) :
        call[c].allPools[j].transaction_hash = event.transaction_hash

\* The scan that filled the cache call d was served from: the last completed
\* scan before d (requests are numbered in the order they arrive).
FillingScan(c, d) ==
    /\ c < d
    /\ call[c].pc = "done" /\ call[c].path = "scan"
    /\ \A e \in Calls : (c < e /\ e < d) => ~(call[e].pc = "done" /\ call[e].path = "scan")

C2_ResultsWithinWindow ==
    \A c \in Calls :
        call[c].pc = "done" =>
            \A i \in 1..Len(call[c].result) :
                call[c].result[i].timestamp
                    >= (call[c].startNow \div 1000) - call[c].minutes * 60

C2_Witness ==
    \E c, d \in Calls :
        /\ call[c].pc = "done" /\ call[c].path = "scan"
        /\ Len(call[c].result) >= 1 /\ Len(call[c].allPools) > Len(call[c].result)
        /\ call[d].pc = "done" /\ call[d].path = "hit"
        /\ Len(call[d].result) >= 1 /\ Len(poolCache) > Len(call[d].result)

\* C3 as stated: two calls for the same key within the TTL, the chain
\* unchanged, return identical record sets.
C3_IdenticalResults ==
    \A c, d \in Calls :
        ( /\ c < d
          /\ call[c].pc = "done" /\ call[c].path = "scan"
          /\ call[d].pc = "done"
          /\ KeyOf(c) = KeyOf(d)
          /\ call[d].now - call[c].now < TtlMs
          /\ call[d].currentBlock = call[c].currentBlock )
            => Records(call[d].result) = Records(call[c].result)

\* C3 amended: the result of a call served from the cache is the result of
\* the scan that filled the cache, restricted to the records not older than
\* the second call's own cutoff (its own now_seconds - minutes*60).
C3_CachedIsFirstRefiltered ==
    \A c, d \in Calls :
        (call[d].pc = "done" /\ call[d].path = "hit" /\ FillingScan(c, d))
            => LET cutoff == (call[d].now \div 1000) - call[d].minutes * 60
                   StillInWindow(pool) == pool.timestamp >= cutoff
               IN  /\ KeyOf(c) = KeyOf(d)
                   /\ call[d].result = SelectSeq(call[c].result, StillInWindow)

C3_Witness ==
    \E c, d \in Calls :
        /\ call[d].pc = "done" /\ call[d].path = "hit" /\ FillingScan(c, d)
        /\ Len(call[c].result) >= 2
        /\ Len(call[d].result) >= 1
        /\ Len(call[d].result) < Len(call[c].result)

\* C4: a call served from the cache has issued no RPC request at all.
C4_CachedCallNoRpc ==
    \A d \in Calls :
        (call[d].pc = "done" /\ call[d].path = "hit") => call[d].rpcs = {}

\* C5: of the calls for one key that are in flight together, at most one scans.
C5_SingleFlight ==
    \A c, d \in Calls :
        (c # d /\ InFlight(c) /\ InFlight(d) /\ KeyOf(c) = KeyOf(d))
            => ~(call[c].path = "scan" /\ call[d].path = "scan")


Covered(c, blockNumber) ==
    \E w \in call[c].windows : w[1] <= blockNumber /\ blockNumber <= w[2]

InStaticTable(tokenAddress) == StaticTokenSymbol(NormalizeAddress(tokenAddress)) # NoSymbol

\* C6: when a scan in which no RPC request failed has returned, its
\* accumulated records include every well-formed pool-creation event of
\* blocks 0..H whose block timestamp is >= the cutoff.
C6_ScanComplete ==
    \A c \in Calls :
        (call[c].pc = "done" /\ call[c].path = "scan" /\ ~call[c].rpcFailed)
            => \A event \in EventsOf(call[c].network) :
                  ( /\ event.block_number <= call[c].currentBlock
                    /\ WellFormed(event)
                    /\ BlockTimestamp(call[c].network, event.block_number)
                          >= call[c].cutoffTimeInSeconds )
                      => Accumulated(c, event)

\* C7: in a scan whose RPC requests are all answered, (a) events are
\* requested only for windows whose youngest block is not older than the
\* cutoff, (b) the first boundary block found older than the cutoff ends the
\* scan: no older boundary is examined, and (c) with the cutoff inside the
\* chain, every block not older than the cutoff lies in a requested window
\* when the scan has returned.
C7_ChunkBoundary ==
    \A c \in Calls :
        (call[c].path = "scan" /\ ~call[c].rpcFailed)
            => LET net == call[c].network
                   cutoff == call[c].cutoffTimeInSeconds
               IN  /\ \A w \in call[c].windows : BlockTimestamp(net, w[2]) >= cutoff
                   /\ \A t \in call[c].examined :
                         BlockTimestamp(net, t) < cutoff
                            => /\ \A u \in call[c].examined : u >= t
                               /\ \/ call[c].pc = "done"
                                  \/ call[c].pc = "getBlock_to" /\ call[c].toBlock = t
                   /\ (call[c].pc = "done" /\ BlockTimestamp(net, 0) < cutoff)
                         => \A b \in 0..call[c].currentBlock :
                               BlockTimestamp(net, b) >= cutoff => Covered(c, b)

\* Chunk size 2, head 4, cutoff at block 3: window [2,4] is requested, the
\* boundary block 1 of the next window is examined and ends the scan.
C7_Witness ==
    \E c \in Calls :
        /\ call[c].pc = "done" /\ call[c].path = "scan" /\ ~call[c].rpcFailed
        /\ call[c].network = "mainnet" /\ call[c].currentBlock = 4 /\ chunkSize = 2
        /\ call[c].cutoffTimeInSeconds = BlockTimestamp("mainnet", 3)
        /\ call[c].windows = {<<2, 4>>}
        /\ call[c].examined = {4, 1}

\* C8: an event with fewer than 7 data fields is never accumulated and
\* never makes the call fail; every well-formed event of a window whose
\* events were delivered, in the same and in later windows, is accumulated.
C8_MalformedSkipped ==
    \A c \in Calls :
        /\ \A pool \in Records(call[c].allPools) \cup Records(call[c].pools) :
              \E event \in EventsOf(call[c].network) :
                  event.transaction_hash = pool.transaction_hash /\ WellFormed(event)
        /\ call[c].pc = "failed" => call[c].error \in {"InvalidWindow", "UpstreamUnavailable"}
        /\ (call[c].pc = "done" /\ call[c].path = "scan" /\ ~call[c].rpcFailed)
              => \A event \in EventsOf(call[c].network) :
                    ( /\ WellFormed(event)
                      /\ event.block_number <= call[c].currentBlock
                      /\ Covered(c, event.block_number) )
                        => Accumulated(c, event)

\* A returned scan that went through the window of block 4 (one malformed
\* and one well-formed event) and then through the window of block 2.
C8_Witness ==
    \E c \in Calls :
        /\ call[c].pc = "done" /\ call[c].path = "scan" /\ ~call[c].rpcFailed
        /\ call[c].network = "mainnet"
        /\ Covered(c, 4) /\ Covered(c, 2)
        /\ Len(call[c].allPools) = 2
        /\ call[c].allPools[1].transaction_hash = "m4"
        /\ call[c].allPools[2].transaction_hash = "m2"

\* C9: when the head-block-number request of a call fails, the call ends
\* with an error, has scanned no window, and the four caches are unchanged.
C9_HeadFetchFailureAborts ==
    [][\A c \in Calls :
          (call[c].pc = "getBlockNumber" /\ call'[c] # call[c] /\ failures' > failures)
              => /\ call'[c].pc = "failed"
                 /\ call'[c].error = "UpstreamUnavailable"
                 /\ call'[c].windows = {}
                 /\ call'[c].examined = {}
                 /\ UNCHANGED <<poolCache, lastCacheUpdate,
                                blockTimestampCache, tokenSymbolCache>>]_vars

C9_Witness ==
    \E c \in Calls :
        /\ call[c].pc = "failed" /\ call[c].error = "UpstreamUnavailable"
        /\ call[c].rpcs = {"getBlockNumber"}
        /\ poolCache # <<>>

\* C10: no contract read is ever in flight for an address of the static
\* table; the symbol cache and the records hold the table's symbol for it.
C10_StaticTableNoContractCall ==
    /\ \A c \in Calls : \A i \in 1..2 :
          call[c].sym[i].st = "rpc" => ~InStaticTable(call[c].sym[i].addr)
    /\ \A a \in DOMAIN tokenSymbolCache :
          InStaticTable(a) => tokenSymbolCache[a] = StaticTokenSymbol(NormalizeAddress(a))
    /\ \A c \in Calls : \A pool \in Records(call[c].allPools) \cup Records(call[c].pools) :
          /\ InStaticTable(pool.pool_key.token0)
                => /\ pool.token0_symbol = StaticTokenSymbol(NormalizeAddress(pool.pool_key.token0))
                   /\ MapHas(tokenSymbolCache, pool.pool_key.token0)
          /\ InStaticTable(pool.pool_key.token1)
                => /\ pool.token1_symbol = StaticTokenSymbol(NormalizeAddress(pool.pool_key.token1))
                   /\ MapHas(tokenSymbolCache, pool.pool_key.token1)

\* A returned scan that resolved only table addresses (ETH, USDC) and issued
\* no contract read.
C10_Witness ==
    \E c \in Calls :
        /\ call[c].pc = "done" /\ call[c].path = "scan"
        /\ Len(call[c].allPools) >= 1
        /\ "getClassAt" \notin call[c].rpcs
        /\ MapHas(tokenSymbolCache, AddrETH) /\ tokenSymbolCache[AddrETH] = SymETH
        /\ MapHas(tokenSymbolCache, AddrUSDC) /\ tokenSymbolCache[AddrUSDC] = SymUSDC

SymbolWritten(tokenAddress) ==
    /\ ~MapHas(tokenSymbolCache, tokenAddress)
    /\ MapHas(tokenSymbolCache', tokenAddress)

\* The symbols the records of a call carry are those of the symbol cache.
RecordsCarryCachedSymbols(c) ==
    \A pool \in Records(call[c].allPools) \cup Records(call[c].pools) :
        /\ MapHas(tokenSymbolCache, pool.pool_key.token0)
        /\ pool.token0_symbol = tokenSymbolCache[pool.pool_key.token0]
        /\ MapHas(tokenSymbolCache, pool.pool_key.token1)
        /\ pool.token1_symbol = tokenSymbolCache[pool.pool_key.token1]

\* C11: when the contract read of an address outside the static table fails,
\* the truncated-address placeholder is cached for it and the call goes on;
\* afterwards no contract read is issued for a cached address, and the
\* records carry the cached symbol.
C11_FallbackCached ==
    /\ [][\A c \in Calls : \A i \in 1..2 :
            ( /\ call[c].pc = "symbols" /\ call[c].sym[i].st = "rpc"
              /\ failures' > failures
              /\ SymbolWritten(call[c].sym[i].addr) )
                => /\ ~InStaticTable(call[c].sym[i].addr)
                   /\ tokenSymbolCache'[call[c].sym[i].addr]
                         = FallbackSymbol(call[c].sym[i].addr)
                   /\ call'[c].pc # "failed"]_vars
    /\ [](\A c \in Calls :
            /\ \A i \in 1..2 : call[c].sym[i].st = "rpc"
                                  => ~MapHas(tokenSymbolCache, call[c].sym[i].addr)
            /\ RecordsCarryCachedSymbols(c))

\* The contract read of TKA failed in one call; a later call met TKA again,
\* returned the placeholder and issued no contract read.
C11_Witness ==
    \E c, d \in Calls :
        /\ c < d
        /\ call[c].pc = "done" /\ "getClassAt" \in call[c].rpcs
        /\ call[d].pc = "done" /\ call[d].path = "scan"
        /\ "getClassAt" \notin call[d].rpcs
        /\ MapHas(tokenSymbolCache, AddrTKA)
        /\ tokenSymbolCache[AddrTKA] = FallbackSymbol(AddrTKA)
        /\ \E pool \in Records(call[d].allPools) :
              /\ AddrTKA \in {pool.pool_key.token0, pool.pool_key.token1}
              /\ FallbackSymbol(AddrTKA) \in {pool.token0_symbol, pool.token1_symbol}

InLoopBody(c) == call[c].path = "scan" /\ call[c].pc \in {"getEvents", "getBlock_ev", "symbols"}

\* C12: the scan loop makes progress towards its end: every iteration that
\* is followed by another one hands it a boundary block strictly below its
\* own, so that the loop cannot go round for ever.
C12_ScanTerminates ==
    [][\A c \in Calls :
          (InLoopBody(c) /\ call'[c].pc = "getBlock_to")
              => call'[c].toBlock < call[c].toBlock]_vars

\* C13: the step in which the event-log fetch of a window fails adds no
\* record, keeps the records accumulated so far, does not fail the call, and
\* takes the scan to the next older window (or to its end at genesis).
C13_FailedWindowYieldsNothing ==
    [][\A c \in Calls :
          (call[c].pc = "getEvents" /\ call'[c] # call[c] /\ failures' > failures)
              => /\ call'[c].allPools = call[c].allPools
                 /\ call'[c].pc \in {"getBlock_to", "done"}
                 /\ call'[c].error = "none"
                 /\ call'[c].pc = "getBlock_to"
                       => /\ call'[c].toBlock = call[c].fromBlock - 1
                          /\ call'[c].fromBlock = Max(0, call[c].fromBlock - chunkSize)
                 /\ call'[c].pc = "done"
                       => call'[c].result = FilterByCutoff(call[c].allPools,
                                                           call[c].cutoffTimeInSeconds)]_vars

\* The event-log fetch of window [3,4] failed: its event m4 is missing, the
\* scan went on to the older windows, found m2 in block 2 and returned.
C13_Witness ==
    \E c \in Calls :
        /\ call[c].pc = "done" /\ call[c].path = "scan" /\ call[c].rpcFailed
        /\ call[c].network = "mainnet"
        /\ <<3, 4>> \in call[c].windows /\ Covered(c, 2)
        /\ Len(call[c].allPools) = 1
        /\ call[c].allPools[1].transaction_hash = "m2"
        /\ Len(call[c].result) = 1

\* C14: the step in which the timestamp of a window's boundary block cannot
\* be fetched does not end the scan: the events of that same window are
\* requested next.
C14_UnavailableBoundaryKeepsWindow ==
    [][\A c \in Calls :
          (call[c].pc = "getBlock_to" /\ call'[c] # call[c] /\ failures' > failures)
              => /\ call'[c].pc = "getEvents"
                 /\ call'[c].error = "none"
                 /\ call'[c].fromBlock = call[c].fromBlock
                 /\ call'[c].toBlock = call[c].toBlock
                 /\ <<call[c].fromBlock, call[c].toBlock>> \in call'[c].windows
                 /\ call'[c].allPools = call[c].allPools]_vars

\* A returned scan that requested the events of a window whose boundary
\* block is older than the cutoff, its timestamp not having been fetched.
C14_Witness ==
    \E c \in Calls :
        /\ call[c].pc = "done" /\ call[c].path = "scan" /\ call[c].rpcFailed
        /\ \E w \in call[c].windows :
              /\ BlockExists(call[c].network, w[2])
              /\ BlockTimestamp(call[c].network, w[2]) < call[c].cutoffTimeInSeconds
        /\ Len(call[c].allPools) >= 1

ScanCompletes(c) ==
    /\ call[c].pc # "done"
    /\ call'[c].pc = "done"
    /\ call'[c].path = "scan"

\* C15: the step that completes a scan leaves in the pool cache exactly the
\* records that scan found, whatever was cached before, and leaves as only
\* last-refresh time that of the scan's key, set to the clock the scan read
\* when it found the cache unusable.
C15_RescanReplacesCache ==
    [][\A c \in Calls :
          ScanCompletes(c)
              => /\ Records(poolCache') = Records(call'[c].allPools)
                 /\ \A i, j \in 1..Len(poolCache') :
                       poolCache'[i].transaction_hash = poolCache'[j].transaction_hash => i = j
                 /\ DOMAIN lastCacheUpdate' = {CacheKey(call[c].network, call[c].minutes)}
                 /\ lastCacheUpdate'[CacheKey(call[c].network, call[c].minutes)] = call[c].now]_vars

\* A second scan has completed with fewer records than the first had
\* cached: the record of block 2 is gone from the cache.
C15_Witness ==
    \E b, c \in Calls :
        /\ b < c
        /\ call[b].pc = "done" /\ call[b].path = "scan"
        /\ call[c].pc = "done" /\ call[c].path = "scan"
        /\ \E pool \in Records(call[b].allPools) : pool \notin Records(call[c].allPools)
        /\ call[c].allPools # <<>>
        /\ Records(poolCache) = Records(call[c].allPools)
        /\ call[c].now > call[b].now

\* C16: a request for the key of the last completed scan, arriving less than
\* the TTL after that scan's refresh time, is served from the cache and
\* scans no window, whatever the number of records that scan found.
C16_FreshServedFromCache ==
    \A b, d \in Calls :
        ( /\ FillingScan(b, d)
          /\ KeyOf(b) = KeyOf(d)
          /\ call[d].path # "none"
          /\ call[d].now - call[b].now < TtlMs )
            => /\ call[d].path = "hit"
               /\ call[d].windows = {}

Keys == {CacheKey(network, minutes) : network \in Networks, minutes \in MinutesInputs}

\* A key is Fresh while a last-refresh time younger than the TTL is recorded for it.
Fresh(updates, cacheKey, nowMs) ==
    /\ MapHas(updates, cacheKey)
    /\ nowMs - updates[cacheKey] < TtlMs

\* C17: a key that is Fresh stays Fresh in every step, unless its own TTL
\* has elapsed; in particular a scan for another key leaves it Fresh.
C17_FreshUntilOwnTtl ==
    [][\A k \in Keys :
          (Fresh(lastCacheUpdate, k, now) /\ ~Fresh(lastCacheUpdate', k, now'))
              => now' - lastCacheUpdate[k] >= TtlMs]_vars

\* C18: the pool cache never holds more records than config.cache.maxCacheSize.
C18_CacheBounded == Len(poolCache) <= MaxCacheSize

\* C19: whatever the interleaving of the calls, the pool cache is empty (as
\* at the start) or holds the whole record set of one completed scan, and a
\* call served from the cache returns the records of one completed scan that
\* are within its own window: never a partially cleared or filled set.
C19_CacheSwapAtomic ==
    /\ \/ poolCache = <<>>
       \/ \E c \in Calls :
             /\ call[c].pc = "done" /\ call[c].path = "scan"
             /\ Records(poolCache) = Records(call[c].allPools)
    /\ \A d \in Calls :
          call[d].path = "hit"
              => \E c \in Calls \ {d} :
                    /\ call[c].pc = "done" /\ call[c].path = "scan"
                    /\ call[c].allPools # <<>>
                    /\ Records(call[d].result)
                          = {pool \in Records(call[c].allPools) :
                                pool.timestamp >= call[d].cutoffTimeInSeconds}

\* The first request was still awaiting the head block number when the
\* second one arrived, scanned and rebuilt the cache; the first was then
\* served both records from the cache.
C19_Witness ==
    /\ call[1].pc = "done" /\ call[1].path = "hit"
    /\ call[2].pc = "done" /\ call[2].path = "scan"
    /\ Len(call[2].allPools) >= 2
    /\ Records(call[1].result) = Records(call[2].allPools)

\* C20: a symbol, once cached for an address, is never changed.
C20_SymbolWriteOnce ==
    [][\A a \in DOMAIN tokenSymbolCache :
          /\ a \in DOMAIN tokenSymbolCache'
          /\ tokenSymbolCache'[a] = tokenSymbolCache[a]]_vars

\* C21: no block timestamp is being fetched for a block number that the
\* timestamp cache already holds, be it an event's block or a window's
\* boundary block.
C21_CachedTimestampNotRefetched ==
    \A c \in Calls :
        /\ call[c].pc = "getBlock_ev"
              => ~MapHas(blockTimestampCache, Head(call[c].uncachedBlockNumbers))
        /\ call[c].pc = "getBlock_to"
              => ~MapHas(blockTimestampCache, call[c].toBlock)

\* C22: the last-refresh map holds at most one key; when it holds none the
\* pool cache is empty, and when it holds one the pool cache holds exactly
\* the records of a completed scan for that key, which set its time.  A
\* call served from the cache returns only records that a scan for its own
\* key found, all of them events of its own network.
C22_OneKeyOneScan ==
    /\ \/ DOMAIN lastCacheUpdate = {} /\ poolCache = <<>>
       \/ \E c \in Calls :
             /\ call[c].pc = "done" /\ call[c].path = "scan"
             /\ DOMAIN lastCacheUpdate = {CacheKey(call[c].network, call[c].minutes)}
             /\ lastCacheUpdate[CacheKey(call[c].network, call[c].minutes)] = call[c].now
             /\ Records(poolCache) = Records(call[c].allPools)
    /\ \A d \in Calls :
          call[d].path = "hit"
              => /\ \E c \in Calls \ {d} :
                       /\ call[c].pc = "done" /\ call[c].path = "scan"
                       /\ KeyOf(c) = KeyOf(d)
                       /\ Records(call[d].result) \subseteq Records(call[c].allPools)
                 /\ \A pool \in Records(call[d].result) :
                       \E event \in EventsOf(call[d].network) :
                           event.transaction_hash = pool.transaction_hash

\* Two scans for different keys have completed: only the key of one is in
\* the last-refresh map, and the cache holds that scan's records, not the
\* other's.
C22_Witness ==
    \E c, d \in Calls :
        /\ call[c].pc = "done" /\ call[c].path = "scan" /\ call[c].allPools # <<>>
        /\ call[d].pc = "done" /\ call[d].path = "scan" /\ call[d].allPools # <<>>
        /\ KeyOf(c) # KeyOf(d)
        /\ DOMAIN lastCacheUpdate = {KeyOf(d)}
        /\ Records(poolCache) = Records(call[d].allPools)
        /\ Records(call[c].allPools) # Records(call[d].allPools)

\* C23: the last-refresh time recorded for a key never decreases: a scan
\* that started earlier and ends later does not put its own, older time in
\* the place of a newer scan's.
C23_NoStaleOverwrite ==
    [][\A k \in Keys :
          (MapHas(lastCacheUpdate, k) /\ MapHas(lastCacheUpdate', k))
              => lastCacheUpdate'[k] >= lastCacheUpdate[k]]_vars

Overlap(v, w) == v[1] <= w[2] /\ w[1] <= v[2]

\* C24: the windows whose events a scan has requested each satisfy
\* 0 <= from <= to, are pairwise disjoint, and are contiguous downwards from
\* the first one, [max(0, H - chunk), H].
C24_WindowsPartition ==
    \A c \in Calls :
        call[c].path = "scan" =>
            LET H == call[c].currentBlock
                ws == call[c].windows
            IN  /\ \A w \in ws : 0 <= w[1] /\ w[1] <= w[2]
                /\ \A v, w \in ws : v # w => ~Overlap(v, w)
                /\ ws # {} => <<Max(0, H - chunkSize), H>> \in ws
                /\ \A w \in ws : w[2] = H \/ \E v \in ws : v[1] = w[2] + 1

====
